---- MODULE Spec2Model ----
(***************************************************************************)
(* Model of the gen_ai batch driver: main() of src/main.py, which          *)
(* configures the Gemini SDK, loads a table, calls                         *)
(* generate_text_from_row (src/app/gemini_handler.py) once per row,        *)
(* appends the results as a new column and saves the table                 *)
(* (src/app/xls_handler.py).                                               *)
(*                                                                         *)
(* Strings are sequences of one-character strings.  The three sentinel     *)
(* strings are one-token sequences, so that every entry of the results     *)
(* list is a sequence.                                                     *)
(***************************************************************************)
EXTENDS Integers, Sequences, FiniteSets, TLC

VARIABLES
    apiKey,      \* environment: GEMINI_API_KEY is "unset", "empty" or "set"
    inputFile,   \* file system: what lies at args.input_file
    table,       \* the records the input file holds
    outputExt,   \* the extension of args.output_file
    template,    \* args.prompt_template
    pc,          \* the step of main() to run next
    exitCode,    \* the process exit code, -1 while main() runs
    fatal,       \* why main() exited with code 1, "none" otherwise
    df,          \* the loaded DataFrame, as its sequence of rows
    idx,         \* rows of df the loop has iterated over
    results,     \* the results list of main()
    owner,       \* owner[k]: the row whose iteration appended results[k]
    newColumn,   \* df[args.new_column_name], <<>> until it is added
    lastCall,    \* what the latest loop iteration did
    apiCalls,    \* calls of model.generate_content so far
    loaded,      \* load_xls has been called
    saved        \* the output file has been written

vars == <<apiKey, inputFile, table, outputExt, template, pc, exitCode, fatal,
          df, idx, results, owner, newColumn, lastCall, apiCalls, loaded, saved>>

----------------------------------------------------------------------------
(* Bounds of the model *)

MaxRows == 2
MaxTemplateLen == 3
MaxTextLen == 2
MaxCandidates == 2

----------------------------------------------------------------------------
(* Characters and strings *)

LB == "{"
RB == "}"
SP == " "

\* all sequences over S of length at most n
StringsUpTo(S, n) == UNION {[1..k -> S] : k \in 0..n}

Has(s, c) == \E i \in DOMAIN s : s[i] = c

RECURSIVE LStrip(_, _)
\* str.lstrip(chars)
LStrip(s, chars) ==
    IF s # <<>> /\ Head(s) \in chars THEN LStrip(Tail(s), chars) ELSE s

RECURSIVE RStrip(_, _)
\* str.rstrip(chars)
RStrip(s, chars) ==
    IF s # <<>> /\ s[Len(s)] \in chars
    THEN RStrip(SubSeq(s, 1, Len(s) - 1), chars)
    ELSE s

\* str.strip(chars)
Strip(s, chars) == RStrip(LStrip(s, chars), chars)

RECURSIVE SplitAcc(_, _, _)
SplitAcc(s, cur, acc) ==
    IF s = <<>>
    THEN IF cur = <<>> THEN acc ELSE Append(acc, cur)
    ELSE IF Head(s) = SP
         THEN SplitAcc(Tail(s), <<>>, IF cur = <<>> THEN acc ELSE Append(acc, cur))
         ELSE SplitAcc(Tail(s), Append(cur, Head(s)), acc)

\* str.split(): the maximal runs of non-whitespace characters, in order
Split(s) == SplitAcc(s, <<>>, <<>>)

----------------------------------------------------------------------------
(* Exceptions and the results of calls *)

Return(v) == [kind |-> "return", exc |-> "", val |-> v]
Raise(e)  == [kind |-> "raise",  exc |-> e,  val |-> <<>>]

----------------------------------------------------------------------------
(* Prompt rendering: gemini_handler.py lines 47-63 *)

\* required_keys = [col.strip('{}') for col in prompt_template.split()
\*                  if '{' in col and '}' in col]
RequiredKeys(tmpl) ==
    LET toks == Split(tmpl)
        sel  == SelectSeq(toks, LAMBDA col : Has(col, LB) /\ Has(col, RB))
    IN  [i \in DOMAIN sel |-> Strip(sel[i], {LB, RB})]

\* for key in required_keys: if key not in row: raise KeyError
PreCheck(row, tmpl) ==
    LET keys == RequiredKeys(tmpl)
    IN  IF \E i \in DOMAIN keys : keys[i] \notin DOMAIN row
        THEN Raise("KeyError")
        ELSE Return(<<>>)

\* index of the first brace of s, or 0
RECURSIVE FirstBrace(_, _)
FirstBrace(s, i) ==
    IF i > Len(s) THEN 0
    ELSE IF s[i] \in {LB, RB} THEN i
    ELSE FirstBrace(s, i + 1)

\* the value of one replacement field: an empty name is the automatic
\* positional index 0 of an empty argument tuple, any other name is a
\* keyword looked up in row.to_dict()
FieldValue(row, name) ==
    IF name = <<>> THEN Raise("IndexError")
    ELSE IF name \in DOMAIN row THEN Return(row[name])
    ELSE Raise("KeyError")

RECURSIVE FormatFrom(_, _, _)
\* str.format(**row.to_dict()), scanning s left to right with out rendered
\* so far; the first error met ends the scan
FormatFrom(row, s, out) ==
    IF s = <<>> THEN Return(out)
    ELSE LET c == Head(s)  rest == Tail(s) IN
      IF c \notin {LB, RB} THEN FormatFrom(row, rest, Append(out, c))
      ELSE IF c = RB
      THEN IF rest # <<>> /\ Head(rest) = RB
           THEN FormatFrom(row, Tail(rest), Append(out, RB))
           ELSE Raise("ValueError")      \* Single '}' encountered
      ELSE IF rest = <<>> THEN Raise("ValueError")   \* Single '{' encountered
      ELSE IF Head(rest) = LB
           THEN FormatFrom(row, Tail(rest), Append(out, LB))
           ELSE LET j == FirstBrace(rest, 1) IN
                IF j = 0 THEN Raise("ValueError")    \* expected '}' before end
                ELSE IF rest[j] = LB THEN Raise("ValueError") \* unexpected '{'
                ELSE LET v == FieldValue(row, SubSeq(rest, 1, j - 1)) IN
                     IF v.kind = "raise" THEN v
                     ELSE FormatFrom(row, SubSeq(rest, j + 1, Len(rest)),
                                     out \o v.val)

\* prompt_template.format(**row.to_dict())
Format(row, tmpl) == FormatFrom(row, tmpl, <<>>)

\* RenderPrompt without the `except KeyError` clause of line 60: a KeyError
\* falls to `except Exception` and leaves as ValueError
RenderPromptNoKeyClause(row, tmpl) ==
    LET pre == PreCheck(row, tmpl) IN
    IF pre.kind = "raise" THEN Raise("ValueError")
    ELSE LET f == Format(row, tmpl) IN
         IF f.kind = "return" THEN f ELSE Raise("ValueError")

\* the first try block of generate_text_from_row: the formatted prompt, or
\* KeyError (missing placeholder), or ValueError (any other formatting error)
RenderPrompt(row, tmpl) ==
    LET pre == PreCheck(row, tmpl) IN
    IF pre.kind = "raise" THEN Raise("KeyError")
    ELSE LET f == Format(row, tmpl) IN
         IF f.kind = "return" THEN f
         ELSE IF f.exc = "KeyError" THEN Raise("KeyError")
         ELSE Raise("ValueError")

----------------------------------------------------------------------------
(* The generation client: gemini_handler.py lines 65-110 *)

\* A response of model.generate_content, as far as the code reads it:
\*   parts_empty  -- `not response.parts`
\*   text         -- the response.text accessor: tag "noattr" (hasattr is
\*                   false), "raises" (the accessor raises ValueError, as the
\*                   SDK does for a blocked candidate) or "text" with val
\*   candidates   -- response.candidates; a candidate's content is "none"
\*                   (falsy content), "empty" (content.parts empty) or
\*                   "parts", with text the text of content.parts[0]
\* response.prompt_feedback only feeds the error message and is left out.
Text(s)    == [tag |-> "text",   val |-> s]
NoAttr     == [tag |-> "noattr", val |-> <<>>]
TextRaises == [tag |-> "raises", val |-> <<>>]

Candidate(s) == [content |-> "parts", text |-> s]
NoContent    == [content |-> "none",  text |-> <<>>]
NoParts      == [content |-> "empty", text |-> <<>>]

Response(pe, t, cs) == [parts_empty |-> pe, text |-> t, candidates |-> cs]

\* lines 69-102: the text of a response, or the exception raised on the way
ExtractText(response) ==
    LET cs    == response.candidates
        first == IF cs # <<>> /\ cs[1].content = "parts"
                 THEN cs[1].text ELSE <<>>
    IN
    IF response.parts_empty
    THEN \* candidate_text is None unless candidates[0] has content parts
         IF first # <<>> THEN Return(first) ELSE Raise("GeminiAPIError")
    ELSE IF response.text.tag = "raises" THEN Raise("ValueError")
    ELSE LET generated_text ==
                 IF response.text.tag = "text" /\ response.text.val # <<>>
                 THEN response.text.val
                 ELSE first
         IN  IF Strip(generated_text, {SP}) = <<>>
             THEN Raise("GeminiAPIError")
             ELSE Return(generated_text)

\* What the client does with one call of generate_content(prompt): raises a
\* GoogleAPIError (network, auth, quota, server error), raises some other
\* exception, answers with a response, or echoes the prompt (a mock).
ApiError        == [kind |-> "GoogleAPIError", resp |-> Response(TRUE, NoAttr, <<>>)]
OtherError      == [kind |-> "OtherError",     resp |-> Response(TRUE, NoAttr, <<>>)]
Echo            == [kind |-> "echo",           resp |-> Response(TRUE, NoAttr, <<>>)]
Responds(r)     == [kind |-> "response",       resp |-> r]
NotCalled       == [kind |-> "not_called",     resp |-> Response(TRUE, NoAttr, <<>>)]

EchoResponse(prompt) == Response(FALSE, Text(prompt), <<Candidate(prompt)>>)

ResponseOf(outcome, prompt) ==
    IF outcome.kind = "echo" THEN EchoResponse(prompt) ELSE outcome.resp

\* WrapGenerationError without the catch-all of line 109: an exception that
\* is no GoogleAPIError and no KeyError leaves as it is
WrapGenerationErrorNoCatchAll(exc) ==
    CASE exc \in {"GoogleAPIError", "RetryError"} -> "GeminiAPIError"
      [] exc = "KeyError"                         -> "GeminiAPIError"
      [] OTHER                                    -> exc

\* lines 104-110: every exception of the second try block leaves
\* generate_text_from_row as a GeminiAPIError
WrapGenerationError(exc) ==
    CASE exc \in {"GoogleAPIError", "RetryError"} -> "GeminiAPIError"
      [] exc = "KeyError"                         -> "GeminiAPIError"
      [] OTHER                                    -> "GeminiAPIError"

\* lines 65-110
CallModel(prompt, outcome) ==
    LET body == CASE outcome.kind = "GoogleAPIError" -> Raise("GoogleAPIError")
                  [] outcome.kind = "OtherError"     -> Raise("RuntimeError")
                  [] OTHER -> ExtractText(ResponseOf(outcome, prompt))
    IN  IF body.kind = "return" THEN body
        ELSE Raise(WrapGenerationError(body.exc))

\* generate_text_from_row(row, prompt_template)
GenerateTextFromRow(row, tmpl, outcome) ==
    LET p == RenderPrompt(row, tmpl) IN
    IF p.kind = "raise" THEN p ELSE CallModel(p.val, outcome)

----------------------------------------------------------------------------
(* main(): src/main.py *)

ERROR_API        == <<"ERROR_API">>
ERROR_KEY        == <<"ERROR_KEY">>
ERROR_UNEXPECTED == <<"ERROR_UNEXPECTED">>
Sentinels        == {ERROR_API, ERROR_KEY, ERROR_UNEXPECTED}

\* RowSentinel with ValueError handled by the KeyError clause
RowSentinelValueErrorAsKey(exc) ==
    CASE exc = "GeminiAPIError"           -> ERROR_API
      [] exc \in {"KeyError", "ValueError"} -> ERROR_KEY
      [] OTHER                            -> ERROR_UNEXPECTED

\* the except clauses of the row loop, lines 57-65
RowSentinel(exc) ==
    CASE exc = "GeminiAPIError" -> ERROR_API
      [] exc = "KeyError"       -> ERROR_KEY
      [] OTHER                  -> ERROR_UNEXPECTED

\* lines 53-65: what one iteration appends to results.  The progress message
\* of line 56 is printed after the append, inside the same try block.
RowAppends(g, printOK) ==
    IF g.kind = "return"
    THEN IF printOK THEN <<g.val>>
         ELSE <<g.val, RowSentinel("UnicodeEncodeError")>>
    ELSE <<RowSentinel(g.exc)>>

----------------------------------------------------------------------------
(* Inputs *)

ColN == <<"n">>
ColD == <<"d">>

\* the value of column n in row i: i times the character "v"
Cell(i) == [k \in 1..i |-> "v"]

\* record i of the input table; every record has the columns n and d
Record(i) == (ColN :> Cell(i)) @@ (ColD :> <<"w">>)

Tables == {[i \in 1..n |-> Record(i)] : n \in 0..MaxRows}

TemplateChars == {LB, RB, SP, "n"}

\* "n {n}n {d}" stands for "Ad for {name}: {desc}", "n{n}n" for
\* "'{product_name}'", "{n} {nn}" for "Ad for {name}: {missing}" and
\* "n {nn}" for "Summarize: {non_existent_column}"
ExampleTemplates ==
    { <<"n", SP, LB, "n", RB, "n", SP, LB, "d", RB>>,
      <<"n", LB, "n", RB, "n">>,
      <<LB, "n", RB, SP, LB, "d", RB>>,
      <<LB, "n", RB, SP, LB, "n", "n", RB>>,
      <<"n", SP, LB, "n", "n", RB>>,
      <<LB, "d", RB, LB, RB>> }

Templates == StringsUpTo(TemplateChars, MaxTemplateLen) \cup ExampleTemplates

\* The behaviours of the generation client that the runs over whole tables
\* draw from, one call at a time: a remote failure, another exception, the
\* echo, and three responses.
ClientOutcomes ==
    { ApiError, OtherError, Echo,
      \* blocked: no parts, no candidates, and a text accessor that raises
      Responds(Response(TRUE, TextRaises, <<>>)),
      \* no parts, and a first candidate whose text is whitespace
      Responds(Response(TRUE, NoAttr, <<Candidate(<<SP>>)>>)),
      \* parts, and a text with leading whitespace
      Responds(Response(FALSE, Text(<<SP, "x">>), <<Candidate(<<SP, "x">>)>>)) }

\* Every response shape within the bounds, for the runs that look at one
\* call of the client at a time.
Texts == StringsUpTo({SP, "x"}, MaxTextLen)

TextFields == {NoAttr, TextRaises} \cup {Text(s) : s \in Texts}

CandidateShapes == {NoContent, NoParts} \cup {Candidate(s) : s \in Texts}

AllResponses ==
    {Response(pe, t, cs) :
        pe \in BOOLEAN, t \in TextFields,
        cs \in StringsUpTo(CandidateShapes, MaxCandidates)}

AllOutcomes == {ApiError, OtherError, Echo} \cup {Responds(r) : r \in AllResponses}

----------------------------------------------------------------------------
(* State machine *)

NoCall == [row |-> 0, render |-> "none", prompt |-> <<>>,
           outcome |-> NotCalled, printOK |-> TRUE, appended |-> <<>>]

Init ==
    /\ apiKey \in {"unset", "empty", "set"}
    /\ inputFile \in {"missing", "empty", "corrupt", "unreadable", "ok"}
    /\ table \in IF inputFile = "ok" THEN Tables ELSE {<<>>}
    /\ outputExt \in {"csv", "xlsx", "xls", "txt"}
    /\ template \in Templates
    /\ pc = "configure"
    /\ exitCode = -1
    /\ fatal = "none"
    /\ df = <<>>
    /\ idx = 0
    /\ results = <<>>
    /\ owner = <<>>
    /\ newColumn = <<>>
    /\ lastCall = NoCall
    /\ apiCalls = 0
    /\ loaded = FALSE
    /\ saved = FALSE

\* sys.exit(1) with the reason
Exit1(why) ==
    /\ pc' = "exit"
    /\ exitCode' = 1
    /\ fatal' = why

\* Configure with `if api_key is None` for `if not api_key`: an empty key
\* is handed to the SDK
ConfigureKeyNoneOnly ==
    /\ pc = "configure"
    /\ \E sdkOK \in BOOLEAN :
         IF apiKey = "unset" THEN Exit1("no_credential")
         ELSE IF ~sdkOK THEN Exit1("sdk_configure")
         ELSE /\ pc' = "load"
              /\ UNCHANGED <<exitCode, fatal>>
    /\ UNCHANGED <<apiKey, inputFile, table, outputExt, template, df, idx,
                   results, owner, newColumn, lastCall, apiCalls, loaded, saved>>

\* step 1, main.py lines 20-29 with configure_gemini (gemini_handler.py
\* lines 17-28): a missing or empty key is a ValueError, a failure of
\* genai.configure a GeminiAPIError, and both exit with code 1
Configure ==
    /\ pc = "configure"
    /\ \E sdkOK \in BOOLEAN :
         IF apiKey # "set" THEN Exit1("no_credential")
         ELSE IF ~sdkOK THEN Exit1("sdk_configure")
         ELSE /\ pc' = "load"
              /\ UNCHANGED <<exitCode, fatal>>
    /\ UNCHANGED <<apiKey, inputFile, table, outputExt, template, df, idx,
                   results, owner, newColumn, lastCall, apiCalls, loaded, saved>>

\* step 2, main.py lines 32-50 with load_xls (xls_handler.py lines 17-32):
\* every exception of load_xls exits with code 1
Load ==
    /\ pc = "load"
    /\ loaded' = TRUE
    /\ IF inputFile = "ok"
       THEN /\ df' = table
            /\ pc' = "rows"
            /\ UNCHANGED <<exitCode, fatal>>
       ELSE /\ Exit1(CASE inputFile = "missing" -> "file_not_found"
                       [] inputFile \in {"empty", "corrupt"} -> "invalid_file"
                       [] OTHER -> "load_unexpected")
            /\ UNCHANGED df
    /\ UNCHANGED <<apiKey, inputFile, table, outputExt, template, idx,
                   results, owner, newColumn, lastCall, apiCalls, saved>>

\* CallsMade with a second attempt after a call that raised
CallsMadeWithRetry(p, outcome) ==
    IF p.kind = "raise" THEN 0
    ELSE IF outcome.kind \in {"GoogleAPIError", "OtherError"} THEN 2
    ELSE 1

\* the calls of generate_content that one call of generate_text_from_row
\* makes: line 67 is reached once, and only when the first try block
\* (lines 47-63) has produced the prompt; no handler of lines 104-110 and
\* none of main.py lines 57-65 calls again
CallsMade(p, outcome) ==
    IF p.kind = "raise" THEN 0 ELSE 1

\* one iteration of the row loop, main.py lines 52-65, with a client that
\* behaves in one of the ways of outcomes
ProcessRow(outcomes) ==
    /\ pc = "rows"
    /\ idx < Len(df)
    /\ LET row == df[idx + 1]
           p   == RenderPrompt(row, template)
       IN \E outcome \in IF p.kind = "raise" THEN {NotCalled} ELSE outcomes :
            LET g == GenerateTextFromRow(row, template, outcome)
            IN  \E printOK \in IF g.kind = "raise" THEN {TRUE} ELSE BOOLEAN :
                  LET app == RowAppends(g, printOK)
                  IN  /\ results' = results \o app
                      /\ owner' = owner \o [k \in DOMAIN app |-> idx + 1]
                      /\ apiCalls' = apiCalls + CallsMade(p, outcome)
                      /\ lastCall' = [row |-> idx + 1,
                                      render |-> IF p.kind = "return" THEN "ok"
                                                                      ELSE p.exc,
                                      prompt |-> p.val,
                                      outcome |-> outcome,
                                      printOK |-> printOK,
                                      appended |-> app]
    /\ idx' = idx + 1
    /\ UNCHANGED <<apiKey, inputFile, table, outputExt, template, pc, exitCode,
                   fatal, df, newColumn, loaded, saved>>

\* step 4, main.py lines 67-73, once the loop has ended
AddColumn ==
    /\ pc = "rows"
    /\ idx = Len(df)
    /\ IF Len(results) = Len(df)
       THEN /\ newColumn' = results
            /\ pc' = "save"
            /\ UNCHANGED <<exitCode, fatal>>
       ELSE /\ Exit1("row_count_mismatch")
            /\ UNCHANGED newColumn
    /\ UNCHANGED <<apiKey, inputFile, table, outputExt, template, df, idx,
                   results, owner, lastCall, apiCalls, loaded, saved>>

\* Save with save_xls writing .xlsx for an extension it does not know
SaveDefaultsToXlsx ==
    /\ pc = "save"
    /\ \E writeOK \in BOOLEAN :
         IF ~writeOK THEN
              /\ Exit1("write_failed")
              /\ UNCHANGED saved
         ELSE /\ saved' = TRUE
              /\ pc' = "exit"
              /\ exitCode' = 0
              /\ UNCHANGED fatal
    /\ UNCHANGED <<apiKey, inputFile, table, outputExt, template, df, idx,
                   results, owner, newColumn, lastCall, apiCalls, loaded>>

\* Save with main() reporting a failed save without sys.exit(1)
SaveIgnoresFailure ==
    /\ pc = "save"
    /\ \E writeOK \in BOOLEAN :
         /\ saved' = (outputExt \in {"csv", "xlsx", "xls"} /\ writeOK)
         /\ pc' = "exit"
         /\ exitCode' = 0
         /\ UNCHANGED fatal
    /\ UNCHANGED <<apiKey, inputFile, table, outputExt, template, df, idx,
                   results, owner, newColumn, lastCall, apiCalls, loaded>>

\* step 5, main.py lines 75-85 with save_xls (xls_handler.py lines 50-68):
\* an unsupported extension and a failed write both reach main() as IOError
Save ==
    /\ pc = "save"
    /\ \E writeOK \in BOOLEAN :
         IF outputExt \notin {"csv", "xlsx", "xls"} THEN
              /\ Exit1("unsupported_extension")
              /\ UNCHANGED saved
         ELSE IF ~writeOK THEN
              /\ Exit1("write_failed")
              /\ UNCHANGED saved
         ELSE /\ saved' = TRUE
              /\ pc' = "exit"
              /\ exitCode' = 0
              /\ UNCHANGED fatal
    /\ UNCHANGED <<apiKey, inputFile, table, outputExt, template, df, idx,
                   results, owner, newColumn, lastCall, apiCalls, loaded>>

Next == Configure \/ Load \/ ProcessRow(ClientOutcomes) \/ AddColumn \/ Save

Spec == Init /\ [][Next]_vars

\* The runs over a one-row table and the templates "{n}" and "{n", in which
\* the client may answer with any response shape within the bounds.
InitShapes ==
    /\ Init
    /\ apiKey = "set"
    /\ inputFile = "ok"
    /\ Len(table) = 1
    /\ outputExt = "csv"
    /\ template \in {<<LB, "n", RB>>, <<LB, "n">>}

NextShapes == Configure \/ Load \/ ProcessRow(AllOutcomes) \/ AddColumn \/ Save

SpecShapes == InitShapes /\ [][NextShapes]_vars

\* main() is one sequential thread: a step that can be taken is taken
FairSpec == Spec /\ WF_vars(Next)

----------------------------------------------------------------------------
(* Notions the claims are stated with *)

Running == pc # "exit"

\* the row loop has ended: main() is at step 4 or beyond
LoopEnded ==
    \/ pc = "rows" /\ idx = Len(df)
    \/ pc = "save"
    \/ pc = "exit" /\ fatal \in {"none", "row_count_mismatch",
                                 "unsupported_extension", "write_failed"}

\* an iteration of the row loop has run, and lastCall describes it
RowDone == lastCall.row > 0


Blank(s) == \A i \in DOMAIN s : s[i] = SP

\* A plain template: literal characters other than braces, and placeholders
\* {name} whose name is a column of row.  PlainRender is the template with
\* every placeholder replaced by the value of its column.
RECURSIVE IsPlain(_, _)
IsPlain(row, s) ==
    IF s = <<>> THEN TRUE
    ELSE IF Head(s) = RB THEN FALSE
    ELSE IF Head(s) # LB THEN IsPlain(row, Tail(s))
    ELSE \E c \in DOMAIN row :
           /\ Len(s) >= Len(c) + 2
           /\ SubSeq(s, 2, Len(c) + 1) = c
           /\ s[Len(c) + 2] = RB
           /\ IsPlain(row, SubSeq(s, Len(c) + 3, Len(s)))

RECURSIVE PlainRender(_, _)
PlainRender(row, s) ==
    IF s = <<>> THEN <<>>
    ELSE IF Head(s) # LB THEN <<Head(s)>> \o PlainRender(row, Tail(s))
    ELSE LET c == CHOOSE c \in DOMAIN row :
                    /\ Len(s) >= Len(c) + 2
                    /\ SubSeq(s, 2, Len(c) + 1) = c
                    /\ s[Len(c) + 2] = RB
         IN  row[c] \o PlainRender(row, SubSeq(s, Len(c) + 3, Len(s)))

\* The placeholder names of a template of valid syntax (literal characters,
\* the escapes {{ and }}, and placeholders {name} with a non-empty name free
\* of braces); ok is FALSE when the syntax is not valid.
RECURSIVE Placeholders(_)
Placeholders(s) ==
    IF s = <<>> THEN [ok |-> TRUE, names |-> {}]
    ELSE IF Head(s) \notin {LB, RB} THEN Placeholders(Tail(s))
    ELSE IF Len(s) >= 2 /\ s[2] = Head(s) THEN Placeholders(SubSeq(s, 3, Len(s)))
    ELSE IF Head(s) = RB THEN [ok |-> FALSE, names |-> {}]
    ELSE LET close == {j \in 3..Len(s) :
                         /\ s[j] = RB
                         /\ \A i \in 2..(j - 1) : s[i] \notin {LB, RB}}
         IN  IF close = {} THEN [ok |-> FALSE, names |-> {}]
             ELSE LET j    == CHOOSE j \in close : TRUE
                      rest == Placeholders(SubSeq(s, j + 1, Len(s)))
                  IN  [ok |-> rest.ok,
                       names |-> rest.names \cup {SubSeq(s, 2, j - 1)}]

\* the template is of valid syntax and names a column that row lacks
ReferencesMissingColumn(row, tmpl) ==
    LET ph == Placeholders(tmpl) IN
    ph.ok /\ \E name \in ph.names : name \notin DOMAIN row

\* the reasons for which main() exits with code 1, by step
ConfigFailures == {"no_credential", "sdk_configure"}
LoadFailures   == {"file_not_found", "invalid_file", "load_unexpected"}
SaveFailures   == {"unsupported_extension", "write_failed"}

----------------------------------------------------------------------------
(* C1 *)

\* C1: when the row loop has ended, results has exactly one entry per record
\* of the table, entry i appended by the iteration of record i, whatever the
\* rows' outcomes (a failure of the progress message included); main() never
\* exits on the row-count mismatch.
C1_OneResultPerRow ==
    /\ LoopEnded =>
         /\ Len(results) = Len(df)
         /\ \A k \in DOMAIN results : owner[k] = k
    /\ fatal # "row_count_mismatch"

----------------------------------------------------------------------------
(* C2 *)

\* C2: for a plain template, all of whose placeholders name columns of the
\* record, rendering succeeds and the prompt is the template with every
\* placeholder replaced by its column's value, wherever the placeholders sit;
\* with an echoing client (and the progress message printed) the row's value
\* is that prompt, provided it is not blank.
C2_PlainTemplateRenders ==
    (RowDone /\ IsPlain(df[lastCall.row], template)) =>
        /\ lastCall.render = "ok"
        /\ lastCall.prompt = PlainRender(df[lastCall.row], template)
        /\ (lastCall.outcome = Echo /\ lastCall.printOK /\ ~Blank(lastCall.prompt))
              => lastCall.appended = <<lastCall.prompt>>

----------------------------------------------------------------------------
(* C3 *)

\* C3: when the template (of valid syntax) references a column the records
\* lack, every iteration raises KeyError without calling the API and records
\* ERROR_KEY, one entry per row in order; the loop goes on to the last row,
\* and an exit with code 1 has a cause outside the row loop.
C3_MissingColumnIsErrorKey ==
    (loaded /\ inputFile = "ok" /\ ReferencesMissingColumn(Record(1), template)) =>
        /\ RowDone => /\ lastCall.render = "KeyError"
                      /\ lastCall.appended = <<ERROR_KEY>>
        /\ Len(results) = idx
        /\ \A k \in DOMAIN results : results[k] = ERROR_KEY /\ owner[k] = k
        /\ apiCalls = 0
        /\ pc = "exit" => /\ idx = Len(df)
                          /\ fatal \in {"none"} \cup SaveFailures
                          /\ fatal = "none" => exitCode = 0 /\ newColumn = results

\* a two-row run with a missing-column template that ended with exit code 0
C3_Witness ==
    /\ pc = "exit" /\ exitCode = 0 /\ saved
    /\ ReferencesMissingColumn(Record(1), template)
    /\ Has(template, LB)
    /\ Len(df) = 2
    /\ newColumn = <<ERROR_KEY, ERROR_KEY>>

----------------------------------------------------------------------------
(* C4 *)

\* the response carries no usable text: no text that is not blank, neither
\* in the text field nor in the first fragment of any candidate
NoUsableText(response) ==
    /\ response.text.tag = "text" => Blank(response.text.val)
    /\ \A i \in DOMAIN response.candidates :
           response.candidates[i].content = "parts"
               => Blank(response.candidates[i].text)

\* the call of the latest iteration failed remotely
RemoteFailure == lastCall.outcome.kind = "GoogleAPIError"

\* the call of the latest iteration answered with a response
Answered == lastCall.outcome.kind \in {"response", "echo"}

LastResponse == ResponseOf(lastCall.outcome, lastCall.prompt)

\* C4: a row whose template renders and whose call fails remotely, or
\* returns a response without usable text, gets the value ERROR_API, and
\* the loop goes on to the last row.
C4_FailedCallIsErrorApi ==
    (RowDone /\ lastCall.render = "ok" /\ lastCall.printOK
       /\ (RemoteFailure \/ (Answered /\ NoUsableText(LastResponse)))) =>
        /\ lastCall.appended = <<ERROR_API>>
        /\ pc = "exit" => idx = Len(df)

----------------------------------------------------------------------------
(* C5 *)

\* C5 as claimed: an exit for a missing credential, a missing or corrupt
\* input file or an unsupported output extension happens before any row is
\* touched.
C5_FatalBeforeAnyRow ==
    (pc = "exit" /\ fatal \in {"no_credential", "file_not_found",
                               "invalid_file", "unsupported_extension"}) =>
        /\ exitCode = 1
        /\ idx = 0 /\ ~RowDone /\ apiCalls = 0

\* C5 amended: a missing credential and a missing or corrupt input file end
\* the run with code 1 before any row is touched; an unsupported output
\* extension ends it with code 1 too, without writing the file, but only at
\* the save step, after every row has been processed.
C5_FatalExits ==
    /\ (apiKey # "set" \/ inputFile # "ok") =>
          /\ idx = 0 /\ ~RowDone /\ apiCalls = 0 /\ results = <<>>
          /\ pc = "exit" => exitCode = 1 /\ fatal \in ConfigFailures \cup LoadFailures
    /\ outputExt \notin {"csv", "xlsx", "xls"} =>
          /\ ~saved
          /\ pc = "exit" => /\ exitCode = 1
                            /\ fatal = "unsupported_extension" =>
                                 idx = Len(df) /\ Len(results) = Len(df)
    /\ fatal = "unsupported_extension" => outputExt \notin {"csv", "xlsx", "xls"}
    /\ fatal \in ConfigFailures \cup LoadFailures =>
          idx = 0 /\ ~RowDone /\ apiCalls = 0 /\ results = <<>>

\* an unsupported extension found after two rows went to the API
C5_Witness ==
    /\ pc = "exit" /\ exitCode = 1 /\ fatal = "unsupported_extension"
    /\ idx = 2 /\ apiCalls = 2

----------------------------------------------------------------------------
(* C6 *)

\* C6: with GEMINI_API_KEY unset or empty, main() exits with code 1 from its
\* first step: the input file is not loaded, no row is processed, no API
\* call is made and no output file is written.
C6_NoCredentialExit ==
    apiKey \in {"unset", "empty"} =>
        /\ pc \in {"configure", "exit"}
        /\ pc = "exit" => exitCode = 1 /\ fatal = "no_credential"
        /\ ~loaded /\ df = <<>>
        /\ idx = 0 /\ ~RowDone /\ results = <<>> /\ apiCalls = 0
        /\ ~saved

\* the run with an empty key has exited
C6_Witness ==
    /\ apiKey = "empty" /\ inputFile = "ok" /\ Len(table) = 2
    /\ pc = "exit" /\ exitCode = 1

----------------------------------------------------------------------------
(* C7 *)

\* C7: main() can always take its next step until it exits; once the file is
\* saved the exit code is 0, every row has been processed and the new column
\* holds one value per row, however many of them are sentinels; exit code 1
\* has one of four causes: configuration failure, load failure, row-count
\* mismatch or save failure, and each cause is what the state shows.
C7_ExitCodes ==
    /\ pc = "configure" => ENABLED Configure
    /\ pc = "load" => ENABLED Load
    /\ pc = "rows" => /\ idx <= Len(df)
                      /\ idx < Len(df) => ENABLED ProcessRow(ClientOutcomes)
                      /\ idx = Len(df) => ENABLED AddColumn
    /\ pc = "save" => ENABLED Save
    /\ pc \in {"configure", "load", "rows", "save", "exit"}
    /\ Running => exitCode = -1 /\ fatal = "none" /\ ~saved
    /\ pc = "exit" =>
         /\ exitCode \in {0, 1}
         /\ exitCode = 0 <=> saved
         /\ exitCode = 0 =>
              /\ fatal = "none"
              /\ apiKey = "set" /\ inputFile = "ok"
              /\ idx = Len(df) /\ df = table
              /\ Len(newColumn) = Len(df) /\ newColumn = results
         /\ exitCode = 1 =>
              /\ fatal \in ConfigFailures \cup LoadFailures
                             \cup {"row_count_mismatch"} \cup SaveFailures
              /\ fatal \in ConfigFailures => ~loaded
              /\ fatal \in LoadFailures => loaded /\ inputFile # "ok"
              /\ fatal = "row_count_mismatch" => Len(results) # Len(df)
              /\ fatal \in SaveFailures => idx = Len(df) /\ newColumn = results
              /\ (apiKey = "set" /\ inputFile = "ok" /\ Len(results) = Len(df)
                    /\ outputExt \in {"csv", "xlsx", "xls"})
                   => fatal \in {"sdk_configure", "write_failed"}

\* under the fairness of a sequential program, main() exits in every run
C7_Terminates == <>(pc = "exit")

\* a two-row run in which both rows ended in a sentinel exits with code 0
C7_Witness ==
    /\ pc = "exit" /\ exitCode = 0 /\ saved
    /\ Len(df) = 2
    /\ newColumn = <<ERROR_API, ERROR_API>>

----------------------------------------------------------------------------
(* C8 *)

\* substitution passed the placeholder check and str.format then failed for
\* a reason other than a missing key
FormatFailedOtherwise(row, tmpl) ==
    /\ PreCheck(row, tmpl).kind = "return"
    /\ Format(row, tmpl).kind = "raise"
    /\ Format(row, tmpl).exc # "KeyError"

\* C8 as claimed: such a row gets ERROR_KEY, as for a missing placeholder.
C8_FormatErrorIsErrorKey ==
    (RowDone /\ FormatFailedOtherwise(df[lastCall.row], template)) =>
        lastCall.appended = <<ERROR_KEY>>

\* C8 amended: such a row gets ERROR_UNEXPECTED, not ERROR_KEY; the API is
\* not called for it and the loop goes on to the last row.
C8_FormatErrorIsErrorUnexpected ==
    (RowDone /\ FormatFailedOtherwise(df[lastCall.row], template)) =>
        /\ lastCall.render = "ValueError"
        /\ lastCall.appended = <<ERROR_UNEXPECTED>>
        /\ apiCalls = 0
        /\ \A k \in DOMAIN results : results[k] = ERROR_UNEXPECTED /\ owner[k] = k
        /\ pc = "exit" => idx = Len(df)

\* the template "{n", an unmatched brace, over two rows
C8_Witness ==
    /\ template = <<LB, "n">>
    /\ pc = "exit" /\ exitCode = 0
    /\ newColumn = <<ERROR_UNEXPECTED, ERROR_UNEXPECTED>>

----------------------------------------------------------------------------
(* C9 *)

\* the call of the latest iteration failed unexpectedly: generate_content
\* raised something that is no GoogleAPIError, or reading the text of a
\* response with parts raised
UnexpectedFailure ==
    \/ lastCall.outcome.kind = "OtherError"
    \/ /\ Answered
       /\ ~LastResponse.parts_empty
       /\ LastResponse.text.tag = "raises"

\* the response of the latest iteration is empty or blocked: it has no
\* parts, or its text field is whitespace, or its text field is empty or
\* absent and its first candidate holds no text that is not blank
EmptyOrBlocked ==
    /\ Answered
    /\ \/ LastResponse.parts_empty
       \/ /\ LastResponse.text.tag = "text"
          /\ LastResponse.text.val # <<>>
          /\ Blank(LastResponse.text.val)
       \/ /\ LastResponse.text.tag = "text" => LastResponse.text.val = <<>>
          /\ LastResponse.candidates # <<>> =>
                \/ LastResponse.candidates[1].content # "parts"
                \/ Blank(LastResponse.candidates[1].text)

----------------------------------------------------------------------------
(* C10 *)

\* C10: every entry of results is a sentinel or a non-empty string without
\* leading or trailing whitespace.
C10_ResultsTrimmedOrSentinel ==
    \A k \in DOMAIN results :
        \/ results[k] \in Sentinels
        \/ results[k] # <<>> /\ Strip(results[k], {SP}) = results[k]

----------------------------------------------------------------------------
(* C11 *)

\* the first fragments of the candidates that hold text (text that is not
\* blank), in order
RECURSIVE CandidateTexts(_)
CandidateTexts(cs) ==
    IF cs = <<>> THEN <<>>
    ELSE (IF cs[1].content = "parts" /\ ~Blank(cs[1].text)
          THEN <<cs[1].text>> ELSE <<>>) \o CandidateTexts(Tail(cs))

\* the text the precedence order of the claim selects, as a sequence of at
\* most one text: the direct text field if it is not blank, else the first
\* fragment of the first candidate that has one
PrecedenceText(response) ==
    IF response.text.tag = "text" /\ ~Blank(response.text.val)
    THEN <<response.text.val>>
    ELSE IF CandidateTexts(response.candidates) # <<>>
         THEN <<Head(CandidateTexts(response.candidates))>>
         ELSE <<>>

\* the same response with response.parts empty where it was not, and back
OtherParts(response) == [response EXCEPT !.parts_empty = ~@]

\* C11: for a response whose text accessor does not raise, the row's value
\* is the text the precedence order selects (direct text field, else first
\* candidate with a fragment), it is ERROR_API only when the order selects
\* no text, and it is the same whether response.parts is empty or not.
C11_ExtractionPrecedence ==
    (RowDone /\ lastCall.render = "ok" /\ lastCall.printOK
       /\ lastCall.outcome.kind = "response"
       /\ LastResponse.text.tag # "raises") =>
        /\ PrecedenceText(LastResponse) # <<>> =>
              lastCall.appended = PrecedenceText(LastResponse)
        /\ lastCall.appended = <<ERROR_API>> =>
              PrecedenceText(LastResponse) = <<>>
        /\ lastCall.appended =
              RowAppends(CallModel(lastCall.prompt,
                                   Responds(OtherParts(LastResponse))), TRUE)

----------------------------------------------------------------------------
(* C12 *)

\* the rows among the first k whose template renders to a prompt
RenderedRows(k) ==
    {j \in 1..k : RenderPrompt(df[j], template).kind = "return"}

\* C12: the calls made so far are exactly one for each processed row whose
\* template rendered and none for the others, whatever the calls returned
\* or raised; so they never exceed the rows processed nor the records.
C12_OneCallPerRecord ==
    /\ apiCalls = Cardinality(RenderedRows(idx))
    /\ apiCalls <= idx
    /\ idx <= Len(df)
    /\ (RowDone /\ lastCall.render # "ok") => lastCall.outcome = NotCalled
    /\ (RowDone /\ lastCall.render = "ok") => lastCall.outcome # NotCalled

\* a run over two rows whose calls both failed remotely: two calls in all
C12_Witness ==
    /\ pc = "exit" /\ Len(df) = 2 /\ idx = 2
    /\ lastCall.row = 2 /\ RemoteFailure
    /\ results = <<ERROR_API, ERROR_API>>
    /\ apiCalls = 2

====
